---- MODULE Spec2Model ----
(***************************************************************************)
(* Restaurant microservices: the orders service (Express + MySQL), the     *)
(* feedback service (Express + MongoDB) and the auth service (Express +    *)
(* Firebase Admin).  Every route handler is one action: its probe, its     *)
(* validation, its driver calls and its response.  The backing stores are  *)
(* the environment: they go down and come back between requests, and they  *)
(* can be lost between two driver calls of one handler.                    *)
(***************************************************************************)
EXTENDS Integers, Sequences, FiniteSets, TLC

\* ---------------------------------------------------------------- bounds
MaxOrders == 2      \* AUTO_INCREMENT ids handed out in a behaviour
MaxFeedbacks == 2   \* ObjectIds generated in a behaviour
MaxClock == 1       \* seconds the wall clock advances in a behaviour
MaxQuantity == 2    \* largest quantity of one cart entry

\* ------------------------------------------------------------ JS values
\* A JSON value of a request body, as express.json() hands it to a handler.
\* Numbers count tenths (37 is 3.7); strings are sequences of characters;
\* an array is opaque and n names its content.
Undefined == [t |-> "undefined", n |-> 0, s |-> <<>>]
Null == [t |-> "null", n |-> 0, s |-> <<>>]
NaN == [t |-> "NaN", n |-> 0, s |-> <<>>]
Num(n) == [t |-> "number", n |-> n, s |-> <<>>]
Str(s) == [t |-> "string", n |-> 0, s |-> s]
Arr(k) == [t |-> "array", n |-> k, s |-> <<>>]

Digits == <<"0", "1", "2", "3", "4", "5", "6", "7", "8", "9">>
IsDigit(c) == \E i \in 1..10 : Digits[i] = c
DigitVal(c) == (CHOOSE i \in 1..10 : Digits[i] = c) - 1

RECURSIVE DigitsLen(_)
\* length of the longest prefix of s made of decimal digits
DigitsLen(s) ==
  IF s = <<>> \/ ~IsDigit(Head(s)) THEN 0 ELSE 1 + DigitsLen(Tail(s))

RECURSIVE DigitsValue(_)
\* the number a sequence of decimal digits denotes
DigitsValue(s) ==
  IF s = <<>> THEN 0
  ELSE DigitsValue(SubSeq(s, 1, Len(s) - 1)) * 10 + DigitVal(s[Len(s)])

\* ToBoolean: what `!v` and `v || d` test
Truthy(v) ==
  CASE v.t = "undefined" -> FALSE
    [] v.t = "null" -> FALSE
    [] v.t = "NaN" -> FALSE
    [] v.t = "number" -> v.n # 0
    [] v.t = "string" -> v.s # <<>>
    [] OTHER -> TRUE

\* StringToNumber: the whole string must be a decimal literal
StringToNumber(s) ==
  LET neg == s # <<>> /\ Head(s) = "-"
      u == IF neg THEN Tail(s) ELSE s
      k == DigitsLen(u)
      int == DigitsValue(SubSeq(u, 1, k))
      rest == SubSeq(u, k + 1, Len(u))
      sgn == IF neg THEN -1 ELSE 1
  IN  IF s = <<>> THEN Num(0)
      ELSE IF k = 0 THEN NaN
      ELSE IF rest = <<>> \/ rest = <<".">> THEN Num(sgn * int * 10)
      ELSE IF Len(rest) = 2 /\ rest[1] = "." /\ IsDigit(rest[2])
        THEN Num(sgn * (int * 10 + DigitVal(rest[2])))
      ELSE NaN

\* ToNumber, as the relational operators apply it to an operand
ToNumber(v) ==
  CASE v.t = "number" -> v
    [] v.t = "string" -> StringToNumber(v.s)
    [] v.t = "null" -> Num(0)
    [] OTHER -> NaN

\* a < b and a > b with a number on the right: false when either side is NaN
JsLess(a, b) ==
  LET x == ToNumber(a)
      y == ToNumber(b)
  IN  x.t = "number" /\ y.t = "number" /\ x.n < y.n

JsGreater(a, b) == JsLess(b, a)

\* parseInt(v): the leading integer of ToString(v), NaN when there is none
parseInt(v) ==
  CASE v.t = "number" ->
         IF v.n >= 0 THEN Num((v.n \div 10) * 10) ELSE Num(-(((-v.n) \div 10) * 10))
    [] v.t = "string" ->
         LET neg == v.s # <<>> /\ Head(v.s) = "-"
             u == IF neg THEN Tail(v.s) ELSE v.s
             k == DigitsLen(u)
             int == DigitsValue(SubSeq(u, 1, k))
         IN  IF k = 0 THEN NaN ELSE Num((IF neg THEN -1 ELSE 1) * int * 10)
    [] OTHER -> NaN

\* v || d
OrElse(v, d) == IF Truthy(v) THEN v ELSE d

\* JSON.stringify(items) and the JSON column read back by the driver
JSONstringify(v) == [t |-> "json", n |-> 0, s |-> <<v>>]
JSONparse(j) == j.s[1]

\* ------------------------------------------------------------ variables
VARIABLES
  service,      \* the process this behaviour follows (the three share no state)
  now,          \* wall clock, in seconds
  req, res,     \* the HTTP exchange being answered: request and response
  mysqlUp,      \* MySQL accepts connections
  pool,         \* orders/database.js: let pool
  orders,       \* table orders: a set of rows
  autoInc,      \* table orders: next AUTO_INCREMENT value
  mongoUp,      \* MongoDB answers commands
  client,       \* feedback/database.js: let client
  collection,   \* feedback/database.js: let collection
  connecting,   \* the connect() started at module load has not settled yet
  feedbacks,    \* collection feedback: a set of documents
  oidSeq,       \* ObjectIds the driver has generated so far
  firebaseUp,   \* the identity provider (Firebase Auth) is reachable
  adminApps,    \* auth/server.js: admin.apps.length
  users,        \* the accounts the identity provider holds
  twin,         \* the repeated run of one request (failure isolation); off in Spec
  pending,      \* orders/server.js PUT: a handler waiting between UPDATE and SELECT
  authToken,    \* api.js: localStorage authToken, sent as Authorization: Bearer
  loading,      \* AuthContext: useState(true)
  currentUser,  \* AuthContext: useState(null)
  location,     \* react-router: the path the browser shows
  cartItems,    \* Home.js: useState([])
  showCart,     \* Home.js: useState(false)
  isSubmitting, \* Home.js: useState(false)
  checkout      \* Home.js handleCheckout waiting for createOrder

ordersVars == <<mysqlUp, pool, orders, autoInc>>
feedbackVars == <<mongoUp, client, collection, connecting, feedbacks, oidSeq>>
authVars == <<firebaseUp, adminApps, users>>
frontendVars ==
  <<loading, currentUser, location, cartItems, showCart, isSubmitting, checkout>>
vars ==
  <<service, now, req, res, ordersVars, feedbackVars, authVars, twin,
    pending, authToken, frontendVars>>

\* a step of a backend process: the browser is another process, no PUT
\* handler is left waiting, and no step changes the header requests carry
Backend == UNCHANGED <<pending, authToken, frontendVars>>

NoReq == [route |-> "none"]
NoPut == [route |-> "none"]
NoCheckout == [phase |-> "none"]
NoRes == [code |-> 0, body |-> <<>>, calls |-> 0]
Idle == res = NoRes

\* a request reaches one process and leaves the other two alone
OrdersRequest == Idle /\ service = "orders" /\ UNCHANGED <<feedbackVars, authVars>>
FeedbackRequest == Idle /\ service = "feedback" /\ UNCHANGED <<ordersVars, authVars>>
AuthRequest == Idle /\ service = "auth" /\ UNCHANGED <<ordersVars, feedbackVars>>

\* ------------------------------------------------------- orders: MySQL
OrderStatus == {"pending", "preparing", "ready", "delivered"}

\* strict SQL mode (the default of MySQL 8): a value the column cannot hold
\* is an error, not a truncation
SqlDecimalOk(v) == ToNumber(v).t = "number" /\ v.t \in {"number", "string"} /\ v # Str(<<>>)
\* variant: the status column takes any string
SqlEnumAny(v) == v.t = "string"
SqlEnumOk(v) == v.t = "string" /\ \E e \in OrderStatus : v = Str(<<e>>)
SqlVarcharOk(v) == v.t \in {"number", "string"}

\* SELECT * FROM orders WHERE id = ?
SelectFirst(tbl, id) ==
  IF tbl # {} THEN <<CHOOSE r \in tbl : \A x \in tbl : r.id <= x.id>> ELSE <<>>

SelectById(tbl, id) ==
  IF \E r \in tbl : r.id = id THEN <<CHOOSE r \in tbl : r.id = id>> ELSE <<>>

\* INSERT INTO orders (user_id, items, total, status) VALUES (?, ?, ?, ?)
InsertRow(id, user_id, items, total, status, ts) ==
  [id |-> id, user_id |-> user_id, items |-> items, total |-> ToNumber(total),
   status |-> status, created_at |-> ts, updated_at |-> ts]

\* variant: the pool variable is left null when the first connection fails
poolAfterFailure == "null"

\* orders/database.js createPool, run once when the module is loaded: the
\* pool object is assigned before the first connection is tried
createPool == "pool"

\* variant: the probe only looks at the pool object
OrdersHasPool == pool # "null"

\* variant: the orders probe also asks the feedback store
OrdersCheckBothStores ==
  IF pool = "null" THEN FALSE ELSE mysqlUp /\ mongoUp

\* orders/database.js checkConnection
OrdersCheckConnection ==
  IF pool = "null" THEN FALSE ELSE mysqlUp

\* ------------------------------------------------------ orders: routes
\* the store is lost before driver call k of the handler (0: never; a k past
\* the handler's last call: after that call took effect, before its result
\* came back)
FailPoints == {0, 1, 2}

\* res.status(code).json(body); calls counts the driver calls the handler
\* issued to its store before answering (the probe is not one of them)
Respond(r, code, body, calls) ==
  /\ req' = r
  /\ res' = [code |-> code, body |-> body, calls |-> calls]
  /\ UNCHANGED service

\* checkDatabase answering for a failed probe: the handler does not run
OrdersUnavailable(r) ==
  /\ ~OrdersCheckConnection
  /\ Respond(r, 503, [error |-> "Servico de pedidos indisponivel"], 0)
  /\ UNCHANGED <<ordersVars, now>>

\* variant: the catch block answers like the gate
OrdersFailedAsGate(r, msg, calls) ==
  /\ Respond(r, 503, [error |-> msg], calls)
  /\ mysqlUp' = FALSE

\* variant: the catch block repeats the failed call once
OrdersFailedRetried(r, msg, calls) ==
  /\ Respond(r, 500, [error |-> msg], calls + 1)
  /\ mysqlUp' = FALSE

\* the catch block of a route after executeQuery threw
OrdersFailed(r, msg, calls) ==
  /\ Respond(r, 500, [error |-> msg], calls)
  /\ mysqlUp' = FALSE

\* GET /health
OrdersHealth ==
  /\ OrdersRequest
  /\ Respond([route |-> "GET /health"], 200,
             [status |-> "OK", service |-> "Orders Service",
              database |-> IF OrdersCheckConnection THEN "Connected" ELSE "Disconnected"], 0)
  /\ UNCHANGED <<ordersVars, now>>

\* variant: the new row takes another member of the ENUM
NewOrderStatusPreparing == "preparing"

\* what POST /orders writes as the new row's status
NewOrderStatus == "pending"

\* variant: the order is filed under the caller named by the bearer token
OwnerFromToken(body) ==
  IF authToken # Undefined THEN authToken ELSE body.user_id

\* const { user_id, items, total } = req.body: whose order it is
OwnerOf(body) == body.user_id

\* POST /orders
PostOrder(body, fail) ==
  LET r == [route |-> "POST /orders", body |-> body]
      id == autoInc
      row == InsertRow(id, OwnerOf(body), JSONparse(JSONstringify(body.items)),
                       body.total, NewOrderStatus, now)
      accepted == SqlVarcharOk(body.user_id) /\ SqlDecimalOk(body.total)
  IN  /\ OrdersRequest
      /\ \/ OrdersUnavailable(r) /\ fail = 0
         \/ /\ OrdersCheckConnection
            /\ UNCHANGED <<pool, now>>
            /\ IF ~Truthy(body.user_id) \/ ~Truthy(body.items) \/ ~Truthy(body.total)
               THEN /\ fail = 0
                    /\ Respond(r, 400, [error |-> "Dados incompletos"], 0)
                    /\ UNCHANGED <<mysqlUp, orders, autoInc>>
               ELSE IF fail = 1
               THEN OrdersFailed(r, "Erro ao criar pedido", 1) /\ UNCHANGED <<orders, autoInc>>
               ELSE IF ~accepted
               THEN /\ fail = 0
                    /\ Respond(r, 500, [error |-> "Erro ao criar pedido"], 1)
                    /\ UNCHANGED <<mysqlUp, orders, autoInc>>
               ELSE /\ autoInc <= MaxOrders
                    /\ orders' = orders \cup {row}
                    /\ autoInc' = autoInc + 1
                    /\ IF fail = 2
                       THEN OrdersFailed(r, "Erro ao criar pedido", 2)
                       ELSE /\ Respond(r, 201,
                                 [success |-> TRUE,
                                  order |-> SelectById(orders', id)[1],
                                  message |-> "Pedido criado com sucesso"], 2)
                            /\ UNCHANGED mysqlUp

\* the rows of tbl in an order of ORDER BY created_at DESC (rows of the same
\* second come in any order)
RECURSIVE OrderedByCreatedDesc(_)
OrderedByCreatedDesc(tbl) ==
  IF tbl = {} THEN {<<>>}
  ELSE UNION { { <<r>> \o rest : rest \in OrderedByCreatedDesc(tbl \ {r}) } :
               r \in { x \in tbl : \A y \in tbl : y.created_at <= x.created_at } }

\* variant: the status filter is dropped when user_id is given
ListFilterUserFirst(q, r) ==
  IF Truthy(q.user_id) THEN r.user_id = q.user_id
  ELSE Truthy(q.status) => Str(<<r.status>>) = q.status

\* the WHERE clause GET /orders builds from its query string
ListFilter(q, r) ==
  /\ Truthy(q.user_id) => r.user_id = q.user_id
  /\ Truthy(q.status) => Str(<<r.status>>) = q.status

\* GET /orders
ListOrders(q, fail) ==
  LET r == [route |-> "GET /orders", query |-> q]
  IN  /\ OrdersRequest
      /\ fail \in {0, 1}
      /\ \/ OrdersUnavailable(r) /\ fail = 0
         \/ /\ OrdersCheckConnection
            /\ UNCHANGED <<pool, now, orders, autoInc>>
            /\ IF fail = 1
               THEN OrdersFailed(r, "Erro ao listar pedidos", 1)
               ELSE /\ \E rows \in OrderedByCreatedDesc({x \in orders : ListFilter(q, x)}) :
                         Respond(r, 200, [success |-> TRUE, orders |-> rows,
                                          count |-> Len(rows)], 1)
                    /\ UNCHANGED mysqlUp

\* GET /orders/:id
GetOrder(id, fail) ==
  LET r == [route |-> "GET /orders/:id", id |-> id]
      found == SelectById(orders, id)
  IN  /\ OrdersRequest
      /\ fail \in {0, 1}
      /\ \/ OrdersUnavailable(r) /\ fail = 0
         \/ /\ OrdersCheckConnection
            /\ UNCHANGED <<pool, now, orders, autoInc>>
            /\ IF fail = 1
               THEN OrdersFailed(r, "Erro ao obter pedido", 1)
               ELSE /\ IF Len(found) = 0
                       THEN Respond(r, 404, [error |-> "Pedido nao encontrado"], 1)
                       ELSE Respond(r, 200, [success |-> TRUE, order |-> found[1]], 1)
                    /\ UNCHANGED mysqlUp

\* the SET list PUT /orders/:id builds: a field is written when its value
\* in the body is truthy
UpdateRow(row, body, ts) ==
  [row EXCEPT
     !.status = IF Truthy(body.status) THEN body.status.s[1] ELSE @,
     !.items = IF Truthy(body.items) THEN JSONparse(JSONstringify(body.items)) ELSE @,
     !.total = IF Truthy(body.total) THEN ToNumber(body.total) ELSE @,
     !.updated_at = ts]

\* PUT /orders/:id
PutOrder(id, body, fail) ==
  LET r == [route |-> "PUT /orders/:id", id |-> id, body |-> body]
      found == SelectById(orders, id)
      accepted == /\ Truthy(body.status) => SqlEnumOk(body.status)
                  /\ Truthy(body.total) => SqlDecimalOk(body.total)
  IN  /\ OrdersRequest
      /\ \/ OrdersUnavailable(r) /\ fail = 0
         \/ /\ OrdersCheckConnection
            /\ UNCHANGED <<pool, now, autoInc>>
            /\ IF ~Truthy(body.status) /\ ~Truthy(body.items) /\ ~Truthy(body.total)
               THEN /\ fail = 0
                    /\ Respond(r, 400, [error |-> "Dados insuficientes"], 0)
                    /\ UNCHANGED <<mysqlUp, orders>>
               ELSE IF fail = 1
               THEN OrdersFailed(r, "Erro ao atualizar pedido", 1) /\ UNCHANGED orders
               ELSE IF Len(found) = 0
               THEN /\ fail = 0
                    /\ Respond(r, 404, [error |-> "Pedido nao encontrado"], 1)
                    /\ UNCHANGED <<mysqlUp, orders>>
               ELSE IF ~accepted
               THEN /\ fail = 0
                    /\ Respond(r, 500, [error |-> "Erro ao atualizar pedido"], 1)
                    /\ UNCHANGED <<mysqlUp, orders>>
               ELSE /\ orders' = (orders \ {found[1]}) \cup {UpdateRow(found[1], body, now)}
                    /\ IF fail = 2
                       THEN OrdersFailed(r, "Erro ao atualizar pedido", 2)
                       ELSE /\ Respond(r, 200,
                                 [success |-> TRUE,
                                  order |-> SelectById(orders', id)[1],
                                  message |-> "Pedido atualizado com sucesso"], 2)
                            /\ UNCHANGED mysqlUp

\* PUT /orders/:id up to its first await that changes the table: the probe
\* passed, the body was accepted and UPDATE ... WHERE id = ? returned with
\* affectedRows = 1.  The handler now waits for the event loop; handlers of
\* other requests run before PutFinish continues it.
PutBegin(id, body) ==
  LET found == SelectById(orders, id)
  IN  /\ OrdersRequest
      /\ pending = NoPut
      /\ OrdersCheckConnection
      /\ Truthy(body.status) \/ Truthy(body.items) \/ Truthy(body.total)
      /\ Len(found) = 1
      /\ Truthy(body.status) => SqlEnumOk(body.status)
      /\ Truthy(body.total) => SqlDecimalOk(body.total)
      /\ orders' = (orders \ {found[1]}) \cup {UpdateRow(found[1], body, now)}
      /\ pending' = [route |-> "PUT /orders/:id", id |-> id, body |-> body]
      /\ UNCHANGED <<service, now, req, res, mysqlUp, pool, autoInc>>

\* the rest of that handler: SELECT * FROM orders WHERE id = ? and
\* res.json({ success, order: updatedOrder[0], message }); JSON.stringify
\* leaves out a property whose value is undefined
PutFinish(fail) ==
  LET id == pending.id
      updatedOrder == SelectById(orders, id)
  IN  /\ OrdersRequest
      /\ pending # NoPut
      /\ pending' = NoPut
      /\ fail \in {0, 2}
      /\ UNCHANGED <<pool, now, orders, autoInc>>
      /\ IF fail = 2 \/ ~mysqlUp
         THEN /\ mysqlUp => fail = 2
              /\ ~mysqlUp => fail = 0
              /\ OrdersFailed(pending, "Erro ao atualizar pedido", 2)
         ELSE /\ Respond(pending, 200,
                   IF Len(updatedOrder) = 0
                   THEN [success |-> TRUE,
                         message |-> "Pedido atualizado com sucesso"]
                   ELSE [success |-> TRUE,
                         order |-> updatedOrder[1],
                         message |-> "Pedido atualizado com sucesso"], 2)
              /\ UNCHANGED mysqlUp

\* variant: DELETE FROM orders WHERE id <= ?
DeleteUpTo(tbl, id) == { x \in tbl : x.id > id }

\* DELETE FROM orders WHERE id = ?
DeleteById(tbl, id) == { x \in tbl : x.id # id }

\* DELETE /orders/:id
DeleteOrder(id, fail) ==
  LET r == [route |-> "DELETE /orders/:id", id |-> id]
  IN  /\ OrdersRequest
      /\ \/ OrdersUnavailable(r) /\ fail = 0
         \/ /\ OrdersCheckConnection
            /\ UNCHANGED <<pool, now, autoInc>>
            /\ IF fail = 1
               THEN OrdersFailed(r, "Erro ao deletar pedido", 1) /\ UNCHANGED orders
               ELSE /\ orders' = DeleteById(orders, id)
                    /\ IF fail = 2
                       THEN OrdersFailed(r, "Erro ao deletar pedido", 1)
                       ELSE /\ IF orders' = orders
                               THEN Respond(r, 404, [error |-> "Pedido nao encontrado"], 1)
                               ELSE Respond(r, 200, [success |-> TRUE,
                                                     message |-> "Pedido deletado com sucesso"], 1)
                            /\ UNCHANGED mysqlUp

\* --------------------------------------------------- feedback: MongoDB
\* an _id the driver generates for insertOne, and the hex string it becomes
\* in a JSON response and in the path of a later request
ObjectId(k) == [t |-> "ObjectId", n |-> k, s |-> <<>>]
toHexString(oid) == Str(<<"h", Digits[oid.n + 1]>>)

\* feedback/database.js connect, up to its first await: the client object
\* exists from module load on, whether or not the server is there
connect == "client"

\* feedback/database.js connect, after `await client.connect()` settled
ConnectSettled ==
  /\ Idle /\ service = "feedback"
  /\ connecting
  /\ connecting' = FALSE
  /\ collection' = IF mongoUp THEN "collection" ELSE collection
  /\ UNCHANGED <<service, now, req, res, ordersVars, authVars,
                 mongoUp, client, feedbacks, oidSeq>>

\* variant: the probe only looks at the client object
FeedbackHasClient == client # "null"

\* feedback/database.js checkConnection: ping through the client object
\* (the driver connects on demand, so the ping answers when the server does)
FeedbackCheckConnection ==
  IF client = "null" THEN FALSE ELSE mongoUp

\* feedback/database.js executeOperation throws before calling the driver
NoCollection == collection = "null"

\* collection.findOne({ _id: id }): equality of BSON values, type included
findOne(coll, id) ==
  IF \E d \in coll : d._id = id THEN CHOOSE d \in coll : d._id = id ELSE Null

\* collection.deleteOne({ _id: id })
deleteOne(coll, id) == { d \in coll : d._id # id }

\* checkDatabase answering for a failed probe: the handler does not run
FeedbackUnavailable(r) ==
  /\ ~FeedbackCheckConnection
  /\ Respond(r, 503, [error |-> "Servico de feedback indisponivel"], 0)
  /\ UNCHANGED <<feedbackVars, now>>

\* the catch block of a route after executeOperation threw: the collection
\* handle is missing (lost = FALSE) or the server went away (lost = TRUE)
FeedbackFailed(r, msg, lost) ==
  /\ Respond(r, 500, [error |-> msg], IF lost THEN 1 ELSE 0)
  /\ mongoUp' = IF lost THEN FALSE ELSE mongoUp

\* GET /health
FeedbackHealth ==
  /\ FeedbackRequest
  /\ Respond([route |-> "GET /health"], 200,
             [status |-> "OK", service |-> "Feedback Service",
              database |-> IF FeedbackCheckConnection THEN "Connected" ELSE "Disconnected"], 0)
  /\ UNCHANGED <<feedbackVars, now>>

\* variant: only the upper end of the range is checked
RatingAboveFive(rating) == JsGreater(rating, Num(50))

\* the range check of POST /feedback
RatingOutOfRange(rating) == JsLess(rating, Num(10)) \/ JsGreater(rating, Num(50))

\* the document POST /feedback builds
NewFeedback(body, ts) ==
  [user_id |-> body.user_id,
   rating |-> parseInt(body.rating),
   comment |-> OrElse(body.comment, Str(<<>>)),
   order_id |-> OrElse(body.order_id, Null),
   created_at |-> ts,
   updated_at |-> ts]

\* insertOne adds the generated _id to the document
WithId(doc, oid) ==
  [_id |-> oid, user_id |-> doc.user_id, rating |-> doc.rating,
   comment |-> doc.comment, order_id |-> doc.order_id,
   created_at |-> doc.created_at, updated_at |-> doc.updated_at]

\* POST /feedback
PostFeedback(body, fail) ==
  LET r == [route |-> "POST /feedback", body |-> body]
      oid == ObjectId(oidSeq + 1)
      doc == WithId(NewFeedback(body, now), oid)
  IN  /\ FeedbackRequest
      /\ \/ FeedbackUnavailable(r) /\ fail = 0
         \/ /\ FeedbackCheckConnection
            /\ UNCHANGED <<client, collection, connecting, now>>
            /\ IF ~Truthy(body.user_id) \/ ~Truthy(body.rating)
               THEN /\ fail = 0
                    /\ Respond(r, 400, [error |-> "Dados incompletos"], 0)
                    /\ UNCHANGED <<mongoUp, feedbacks, oidSeq>>
               ELSE IF RatingOutOfRange(body.rating)
               THEN /\ fail = 0
                    /\ Respond(r, 400, [error |-> "Rating invalido"], 0)
                    /\ UNCHANGED <<mongoUp, feedbacks, oidSeq>>
               ELSE IF NoCollection \/ fail = 1
               THEN /\ fail = IF NoCollection THEN 0 ELSE 1
                    /\ FeedbackFailed(r, "Erro ao criar feedback", fail = 1)
                    /\ UNCHANGED <<feedbacks, oidSeq>>
               ELSE /\ oidSeq < MaxFeedbacks
                    /\ feedbacks' = feedbacks \cup {doc}
                    /\ oidSeq' = oidSeq + 1
                    /\ IF fail = 2
                       THEN /\ Respond(r, 500, [error |-> "Erro ao criar feedback"], 2)
                            /\ mongoUp' = FALSE
                       ELSE /\ Respond(r, 201,
                                 [success |-> TRUE,
                                  feedback |-> findOne(feedbacks', oid),
                                  message |-> "Feedback enviado com sucesso"], 2)
                            /\ UNCHANGED mongoUp

\* the filter GET /feedback builds from its query string
FeedbackFilter(q, d) ==
  /\ Truthy(q.user_id) => d.user_id = q.user_id
  /\ Truthy(q.rating) => d.rating = parseInt(q.rating)

\* find(filter).sort({ created_at: -1 }).toArray()
RECURSIVE SortedByCreatedDesc(_)
SortedByCreatedDesc(coll) ==
  IF coll = {} THEN {<<>>}
  ELSE UNION { { <<d>> \o rest : rest \in SortedByCreatedDesc(coll \ {d}) } :
               d \in { x \in coll : \A y \in coll : y.created_at <= x.created_at } }

\* GET /feedback
ListFeedback(q, fail) ==
  LET r == [route |-> "GET /feedback", query |-> q]
  IN  /\ FeedbackRequest
      /\ fail \in {0, 1}
      /\ \/ FeedbackUnavailable(r) /\ fail = 0
         \/ /\ FeedbackCheckConnection
            /\ UNCHANGED <<client, collection, connecting, feedbacks, oidSeq, now>>
            /\ IF NoCollection \/ fail = 1
               THEN /\ fail = IF NoCollection THEN 0 ELSE 1
                    /\ FeedbackFailed(r, "Erro ao listar feedbacks", fail = 1)
               ELSE /\ \E docs \in SortedByCreatedDesc({d \in feedbacks : FeedbackFilter(q, d)}) :
                         Respond(r, 200, [success |-> TRUE, feedbacks |-> docs,
                                          count |-> Len(docs)], 1)
                    /\ UNCHANGED mongoUp

\* GET /feedback/:id, the first route that matches GET /feedback/<segment>:
\* the segment arrives as the string req.params.id
GetFeedback(id, fail) ==
  LET r == [route |-> "GET /feedback/:id", id |-> id]
      feedback == findOne(feedbacks, id)
  IN  /\ FeedbackRequest
      /\ fail \in {0, 1}
      /\ \/ FeedbackUnavailable(r) /\ fail = 0
         \/ /\ FeedbackCheckConnection
            /\ UNCHANGED <<client, collection, connecting, feedbacks, oidSeq, now>>
            /\ IF NoCollection \/ fail = 1
               THEN /\ fail = IF NoCollection THEN 0 ELSE 1
                    /\ FeedbackFailed(r, "Erro ao obter feedback", fail = 1)
               ELSE /\ IF ~Truthy(feedback)
                       THEN Respond(r, 404, [error |-> "Feedback nao encontrado"], 1)
                       ELSE Respond(r, 200, [success |-> TRUE, feedback |-> feedback], 1)
                    /\ UNCHANGED mongoUp

\* Math.round(avg * 100) / 100 of ratings given in tenths, in hundredths
RECURSIVE SumRatings(_)
SumRatings(coll) ==
  IF coll = {} THEN 0
  ELSE LET d == CHOOSE x \in coll : TRUE IN d.rating.n + SumRatings(coll \ {d})

AverageRating(coll) ==
  IF coll = {} THEN 0
  ELSE (2 * 10 * SumRatings(coll) + Cardinality(coll)) \div (2 * Cardinality(coll))

\* { $group: { _id: '$rating', count: { $sum: 1 } } }
RatingDistribution(coll) ==
  { [_id |-> x, count |-> Cardinality({ d \in coll : d.rating = x })] :
      x \in { d.rating : d \in coll } }

\* the stats object the handler of GET /feedback/stats builds
FeedbackStats(coll) ==
  [total |-> Cardinality(coll),
   averageRating |-> AverageRating(coll),
   ratingDistribution |-> RatingDistribution(coll)]

\* the handler registered for GET /feedback/stats
GetFeedbackStats(fail) ==
  LET r == [route |-> "GET /feedback/stats"]
  IN  /\ FeedbackRequest
      /\ fail \in {0, 1}
      /\ \/ FeedbackUnavailable(r) /\ fail = 0
         \/ /\ FeedbackCheckConnection
            /\ UNCHANGED <<client, collection, connecting, feedbacks, oidSeq, now>>
            /\ IF NoCollection \/ fail = 1
               THEN /\ fail = IF NoCollection THEN 0 ELSE 1
                    /\ FeedbackFailed(r, "Erro ao obter estatisticas", fail = 1)
               ELSE /\ Respond(r, 200, [success |-> TRUE,
                                        stats |-> FeedbackStats(feedbacks)], 3)
                    /\ UNCHANGED mongoUp

\* the GET routes that take /feedback/<segment>, in the order in which the
\* file registers them
FeedbackSegmentRoutes == <<"GET /feedback/:id", "GET /feedback/stats">>

\* Express path matching: :id takes any segment, a literal takes itself
RouteMatches(route, seg) ==
  IF route = "GET /feedback/stats" THEN seg = Str(<<"stats">>) ELSE TRUE

\* Express runs the first registered route that matches
FirstMatch(routes, seg) ==
  routes[CHOOSE i \in 1..Len(routes) :
           /\ RouteMatches(routes[i], seg)
           /\ \A j \in 1..(i - 1) : ~RouteMatches(routes[j], seg)]

\* GET /feedback/<segment>
GetFeedbackSegment(seg, fail) ==
  IF FirstMatch(FeedbackSegmentRoutes, seg) = "GET /feedback/stats"
  THEN GetFeedbackStats(fail)
  ELSE GetFeedback(seg, fail)

\* DELETE /feedback/:id
DeleteFeedback(id, fail) ==
  LET r == [route |-> "DELETE /feedback/:id", id |-> id]
  IN  /\ FeedbackRequest
      /\ fail \in {0, 1}
      /\ \/ FeedbackUnavailable(r) /\ fail = 0
         \/ /\ FeedbackCheckConnection
            /\ UNCHANGED <<client, collection, connecting, oidSeq, now>>
            /\ IF NoCollection \/ fail = 1
               THEN /\ fail = IF NoCollection THEN 0 ELSE 1
                    /\ FeedbackFailed(r, "Erro ao deletar feedback", fail = 1)
                    /\ UNCHANGED feedbacks
               ELSE /\ feedbacks' = deleteOne(feedbacks, id)
                    /\ IF Cardinality(feedbacks) - Cardinality(feedbacks') = 0
                       THEN Respond(r, 404, [error |-> "Feedback nao encontrado"], 1)
                       ELSE Respond(r, 200, [success |-> TRUE,
                                             message |-> "Feedback deletado com sucesso"], 1)
                    /\ UNCHANGED mongoUp

\* ------------------------------------------------------ auth: Firebase
\* GET /health of the auth service
AuthHealth ==
  /\ AuthRequest
  /\ Respond([route |-> "GET /health"], 200,
             [status |-> "OK", service |-> "Auth Service",
              firebase |-> IF adminApps > 0 THEN "Connected" ELSE "Disconnected"], 0)
  /\ UNCHANGED <<authVars, now>>

\* variant: the routes do not look at admin.apps
AdminNeverUnavailable == FALSE

\* `!admin.apps.length`: the Admin SDK was not initialised at startup
AdminUnavailable == adminApps = 0

\* the default name of login, register and profile
DefaultName == Str(<<"Usuario">>)

\* ID tokens the provider has signed, and the claims each carries
T1 == Str(<<"t1">>)
T2 == Str(<<"t2">>)
IssuedTokens == {T1, T2}
Claims(token) ==
  IF token = T1
  THEN [uid |-> Str(<<"uid1">>), email |-> Str(<<"a", "@", "x">>),
        name |-> Str(<<"Ana">>), display_name |-> Undefined]
  ELSE [uid |-> Str(<<"uid2">>), email |-> Str(<<"b", "@", "x">>),
        name |-> Undefined, display_name |-> Undefined]

\* the provider's signing keys are at hand: fetched when it is reachable,
\* cached or not when it is not
Certs == IF firebaseUp THEN {TRUE} ELSE BOOLEAN

\* variant: the token is decoded without its signature being checked
decodeIdToken(token, keys) == [ok |-> TRUE, value |-> Claims(token)]

\* admin.auth().verifyIdToken(token): the decoded claims, or it throws
verifyIdToken(token, keys) ==
  IF keys /\ token \in IssuedTokens
  THEN [ok |-> TRUE, value |-> Claims(token)]
  ELSE [ok |-> FALSE, value |-> Undefined]

\* POST /login
Login(body, keys) ==
  LET r == [route |-> "POST /login", body |-> body]
      decoded == verifyIdToken(body.idToken, keys)
  IN  /\ AuthRequest
      /\ keys \in Certs
      /\ UNCHANGED <<authVars, now>>
      /\ IF ~Truthy(body.idToken)
         THEN Respond(r, 400, [error |-> "Token ID nao fornecido"], 0)
         ELSE IF AdminUnavailable
         THEN Respond(r, 503, [error |-> "Servico de autenticacao indisponivel",
                               message |-> "Tente novamente mais tarde"], 0)
         ELSE IF decoded.ok
         THEN Respond(r, 200,
                      [success |-> TRUE,
                       user |-> [uid |-> decoded.value.uid,
                                 email |-> decoded.value.email,
                                 name |-> OrElse(decoded.value.name, DefaultName)],
                       message |-> "Login realizado com sucesso"], 1)
         ELSE Respond(r, 401, [error |-> "Falha na autenticacao",
                               message |-> "Verifique suas credenciais"], 1)

\* what the provider accepts as an email and as a password
ValidEmail(v) == v.t = "string" /\ \E i \in 1..Len(v.s) : v.s[i] = "@"
ValidPassword(v) == v.t = "string" /\ Len(v.s) >= 6

\* variant: an email that exists is reported like any other failure
createUserErrorPlain(email, password) ==
  IF ValidEmail(email) /\ ValidPassword(password) /\ firebaseUp
     /\ email \notin { u.email : u \in users }
  THEN "none" ELSE "app/network-error"

\* error.code of the error admin.auth().createUser throws ("none": it
\* resolves); the SDK checks the arguments before it calls the provider
createUserError(email, password) ==
  IF ~ValidEmail(email) THEN "auth/invalid-email"
  ELSE IF ~ValidPassword(password) THEN "auth/invalid-password"
  ELSE IF ~firebaseUp THEN "app/network-error"
  ELSE IF email \in { u.email : u \in users } THEN "auth/email-already-exists"
  ELSE "none"

\* the UserRecord of an account the provider creates
UserRecord(email, displayName) ==
  [uid |-> Str(<<"new", Digits[Cardinality(users) + 1]>>),
   email |-> email,
   displayName |-> displayName]

\* POST /register
Register(body) ==
  LET r == [route |-> "POST /register", body |-> body]
      code == createUserError(body.email, body.password)
      userRecord == UserRecord(body.email, OrElse(body.displayName, DefaultName))
  IN  /\ AuthRequest
      /\ UNCHANGED <<firebaseUp, adminApps, now>>
      /\ IF ~Truthy(body.email) \/ ~Truthy(body.password)
         THEN /\ Respond(r, 400, [error |-> "Email e senha sao obrigatorios"], 0)
              /\ UNCHANGED users
         ELSE IF AdminUnavailable
         THEN /\ Respond(r, 503, [error |-> "Servico de autenticacao indisponivel",
                                  message |-> "Tente novamente mais tarde"], 0)
              /\ UNCHANGED users
         ELSE IF code = "none"
         THEN /\ users' = users \cup {userRecord}
              /\ Respond(r, 200,
                         [success |-> TRUE,
                          user |-> [uid |-> userRecord.uid,
                                    email |-> userRecord.email,
                                    name |-> userRecord.displayName],
                          message |-> "Usuario criado com sucesso"], 1)
         ELSE IF code = "auth/email-already-exists"
         THEN /\ Respond(r, 409, [error |-> "Email ja cadastrado",
                                  message |-> "Use outro email ou faca login"], 1)
              /\ UNCHANGED users
         ELSE /\ Respond(r, 500, [error |-> "Erro ao criar usuario",
                                  message |-> "Tente novamente mais tarde"], 1)
              /\ UNCHANGED users

\* req.headers.authorization?.split('Bearer ')[1]; a header is a sequence
\* of pieces, "Bearer " being one piece
BearerToken(h) ==
  IF h.t # "string" \/ ~\E i \in 1..Len(h.s) : h.s[i] = "Bearer "
  THEN Undefined
  ELSE LET i == CHOOSE k \in 1..Len(h.s) :
                  h.s[k] = "Bearer " /\ \A m \in 1..(k - 1) : h.s[m] # "Bearer "
           rest == SubSeq(h.s, i + 1, Len(h.s))
           n == IF \E k \in 1..Len(rest) : rest[k] = "Bearer "
                THEN (CHOOSE k \in 1..Len(rest) :
                        rest[k] = "Bearer " /\ \A m \in 1..(k - 1) : rest[m] # "Bearer ") - 1
                ELSE Len(rest)
       IN  Str(SubSeq(rest, 1, n))

\* GET /profile: verifyToken, then the handler
Profile(authorization, keys) ==
  LET r == [route |-> "GET /profile", authorization |-> authorization]
      token == BearerToken(authorization)
      decoded == verifyIdToken(token, keys)
      user == decoded.value
  IN  /\ AuthRequest
      /\ keys \in Certs
      /\ UNCHANGED <<authVars, now>>
      /\ IF ~Truthy(token)
         THEN Respond(r, 401, [error |-> "Token nao fornecido"], 0)
         ELSE IF AdminUnavailable
         THEN Respond(r, 503, [error |-> "Servico de autenticacao indisponivel"], 0)
         ELSE IF ~decoded.ok
         THEN Respond(r, 401, [error |-> "Token invalido"], 1)
         ELSE Respond(r, 200,
                      [success |-> TRUE,
                       user |-> [uid |-> user.uid,
                                 email |-> user.email,
                                 name |-> OrElse(user.name,
                                                 OrElse(user.display_name, DefaultName))]], 1)

\* ------------------------------------------- every service: unmatched
\* the routes each server file registers; "/x/:id" stands for /x/<segment>
Routes(svc) ==
  CASE svc = "orders" ->
         { <<"GET", "/health">>, <<"GET", "/orders">>, <<"GET", "/orders/:id">>,
           <<"POST", "/orders">>, <<"PUT", "/orders/:id">>,
           <<"DELETE", "/orders/:id">> }
    [] svc = "feedback" ->
         { <<"GET", "/health">>, <<"GET", "/feedback">>, <<"GET", "/feedback/:id">>,
           <<"POST", "/feedback">>, <<"DELETE", "/feedback/:id">> }
    [] OTHER ->
         { <<"GET", "/health">>, <<"POST", "/login">>, <<"POST", "/register">>,
           <<"GET", "/profile">> }

\* app.use(cors()) with its defaults: a preflight is answered by the
\* middleware itself, before any route is tried
IsPreflight(method) == method = "OPTIONS"

\* variant: the 404 middleware answers with the body of the error middleware
InternalError == [error |-> "Erro interno do servidor"]

\* app.use('*'): the body of the catch-all
RouteNotFound == [error |-> "Rota nao encontrada"]

\* a request that no registered route matches: cors(), then express.json(),
\* then the routes in order, then the 404 middleware
Unrouted(method, path) ==
  LET r == [route |-> "*", method |-> method, path |-> path]
  IN  /\ Idle
      /\ <<method, path>> \notin Routes(service)
      /\ IF IsPreflight(method)
         THEN Respond(r, 204, <<>>, 0)
         ELSE Respond(r, 404, RouteNotFound, 0)
      /\ UNCHANGED <<now, ordersVars, feedbackVars, authVars>>

\* ------------------------------------------------------ frontend: React
\* The browser is a process of its own.  AuthContext holds loading and
\* currentUser, react-router the location, and the Home page its cart.  A
\* state update and the render (and Navigate effect) that follows it are
\* one step.
BrowserStep ==
  /\ service = "frontend"
  /\ UNCHANGED <<service, now, req, res, ordersVars, feedbackVars, authVars,
                 pending, authToken>>

\* data/menu.js: the ids of the first two menu items
Menu == {1, 2}

\* the Firebase user onAuthStateChanged hands over
UserA == [uid |-> Str(<<"u", "1">>), email |-> Str(<<"a", "@">>)]

Locations == {"/", "/login", "/orders", "/feedback"}

\* variant: a route wrapper that renders its children for everybody
OpenRoute(page, ld, user) == IF ld THEN "Carregando" ELSE page

\* App.js ProtectedRoute: what it returns for the page it wraps
ProtectedRoute(page, ld, user) ==
  IF ld THEN "Carregando"
  ELSE IF user # Null THEN page ELSE "Navigate /login"

\* App.js <Routes>: the element of the route that matches path
Element(path, ld, user) ==
  CASE path = "/" -> "Home"
    [] path = "/login" -> "Login"
    [] path = "/orders" -> ProtectedRoute("Orders", ld, user)
    [] path = "/feedback" -> ProtectedRoute("Feedback", ld, user)

\* AuthProvider renders {!loading && children}
Rendered(path, ld, user) == IF ld THEN "nothing" ELSE Element(path, ld, user)

\* the path after the <Navigate> effect of the rendered element, if any
Settled(path, ld, user) ==
  IF Rendered(path, ld, user) = "Navigate /login" THEN "/login" ELSE path

\* Home is mounted: its state exists and its handlers can be called
HomeMounted == ~loading /\ location = "/"

\* AuthContext: onAuthStateChanged(auth, user => { setCurrentUser(user);
\* setLoading(false) })
AuthStateChanged(user) ==
  /\ BrowserStep
  /\ loading \/ user # currentUser
  /\ currentUser' = user
  /\ loading' = FALSE
  /\ location' = Settled(location, FALSE, user)
  /\ UNCHANGED <<cartItems, showCart, isSubmitting, checkout>>

\* a link or the address bar: the route changes; leaving "/" unmounts Home
\* and its state is gone, a response still on its way finds no component
GoTo(path) ==
  /\ BrowserStep
  /\ ~loading /\ path # location
  /\ location' = Settled(path, loading, currentUser)
  /\ UNCHANGED <<loading, currentUser>>
  /\ IF location = "/"
     THEN /\ cartItems' = <<>> /\ showCart' = FALSE
          /\ isSubmitting' = FALSE /\ checkout' = NoCheckout
     ELSE UNCHANGED <<cartItems, showCart, isSubmitting, checkout>>

\* prevItems.find(cartItem => cartItem.id === id)
InCart(items, id) == \E i \in 1..Len(items) : items[i].id = id

\* variant: addToCart always appends a new entry
appendToCart(prevItems, id) == Append(prevItems, [id |-> id, quantity |-> 1])

\* Home.js addToCart: the updater passed to setCartItems
addToCart(prevItems, id) ==
  IF InCart(prevItems, id)
  THEN [i \in 1..Len(prevItems) |->
          IF prevItems[i].id = id
          THEN [prevItems[i] EXCEPT !.quantity = @ + 1]
          ELSE prevItems[i]]
  ELSE Append(prevItems, [id |-> id, quantity |-> 1])

\* Home.js removeFromCart: prevItems.filter(item => item.id !== itemId)
removeFromCart(prevItems, itemId) ==
  SelectSeq(prevItems, LAMBDA item : item.id # itemId)

\* Home.js updateQuantity
updateQuantity(prevItems, itemId, newQuantity) ==
  IF newQuantity <= 0
  THEN removeFromCart(prevItems, itemId)
  ELSE [i \in 1..Len(prevItems) |->
          IF prevItems[i].id = itemId
          THEN [prevItems[i] EXCEPT !.quantity = newQuantity]
          ELSE prevItems[i]]

\* Menu: onAddToCart(item)
AddToCart(id) ==
  /\ BrowserStep /\ HomeMounted
  /\ \A i \in 1..Len(cartItems) :
        cartItems[i].id = id => cartItems[i].quantity < MaxQuantity
  /\ cartItems' = addToCart(cartItems, id)
  /\ showCart' = TRUE
  /\ UNCHANGED <<loading, currentUser, location, isSubmitting, checkout>>

\* Cart: onUpdateQuantity(item.id, quantity)
UpdateQuantity(id, q) ==
  /\ BrowserStep /\ HomeMounted
  /\ cartItems' = updateQuantity(cartItems, id, q)
  /\ UNCHANGED <<loading, currentUser, location, showCart, isSubmitting, checkout>>

\* Cart: onRemoveItem(item.id)
RemoveFromCart(id) ==
  /\ BrowserStep /\ HomeMounted
  /\ cartItems' = removeFromCart(cartItems, id)
  /\ UNCHANGED <<loading, currentUser, location, showCart, isSubmitting, checkout>>

\* Home.js toggleCart
ToggleCart ==
  /\ BrowserStep /\ HomeMounted
  /\ showCart' = ~showCart
  /\ UNCHANGED <<loading, currentUser, location, cartItems, isSubmitting, checkout>>

\* currentUser.uid || currentUser.email || currentUser.id
UserId(user) == OrElse(user.uid, user.email)

\* variant: the checkout guard lets an empty cart through
EmptyCart(items) == FALSE

\* cartItems.length === 0
CartIsEmpty(items) == Len(items) = 0

\* Home.js handleCheckout up to await ordersService.createOrder(orderData).
\* Cart disables its button while isLoading; Cart shows the button only for
\* a cart with entries, the handler is called here for every cart so that
\* its own guards are exercised.  The alerts change no state.
CheckoutStart ==
  /\ BrowserStep /\ HomeMounted
  /\ ~isSubmitting
  /\ UNCHANGED <<loading, currentUser, location, cartItems, showCart>>
  /\ IF currentUser = Null \/ CartIsEmpty(cartItems)
     THEN UNCHANGED <<isSubmitting, checkout>>
     ELSE IF ~Truthy(UserId(currentUser))
     THEN isSubmitting' = FALSE /\ UNCHANGED checkout
     ELSE /\ isSubmitting' = TRUE
          /\ checkout' = [phase |-> "sent", user_id |-> UserId(currentUser),
                           items |-> cartItems]

\* what comes back from POST /orders: 201 with success, 503 from the
\* gate, another error status, or no response at all
Outcomes == {"success", "503", "error", "network"}

\* setCartItems([]) after response.data.success
clearCart(prevItems, sent) == <<>>

\* Home.js handleCheckout from the settled createOrder promise to the end
\* of its finally block
CheckoutDone(outcome) ==
  /\ BrowserStep /\ HomeMounted
  /\ checkout.phase = "sent"
  /\ checkout' = [phase |-> "ended", outcome |-> outcome]
  /\ isSubmitting' = FALSE
  /\ IF outcome = "success"
     THEN cartItems' = clearCart(cartItems, checkout.items) /\ showCart' = FALSE
     ELSE UNCHANGED <<cartItems, showCart>>
  /\ UNCHANGED <<loading, currentUser, location>>

\* ---------------------------------------------------------- environment
\* the response leaves the process: the exchange is over
Deliver ==
  /\ ~Idle
  /\ req' = NoReq /\ res' = NoRes
  /\ UNCHANGED <<service, now, ordersVars, feedbackVars, authVars>>

MySqlLost ==
  /\ Idle /\ service = "orders" /\ mysqlUp
  /\ mysqlUp' = FALSE
  /\ UNCHANGED <<service, now, req, res, pool, orders, autoInc, feedbackVars, authVars>>

MySqlBack ==
  /\ Idle /\ service = "orders" /\ ~mysqlUp
  /\ mysqlUp' = TRUE
  /\ UNCHANGED <<service, now, req, res, pool, orders, autoInc, feedbackVars, authVars>>

MongoLost ==
  /\ Idle /\ service = "feedback" /\ mongoUp
  /\ mongoUp' = FALSE
  /\ UNCHANGED <<service, now, req, res, ordersVars, authVars,
                 client, collection, connecting, feedbacks, oidSeq>>

MongoBack ==
  /\ Idle /\ service = "feedback" /\ ~mongoUp
  /\ mongoUp' = TRUE
  /\ UNCHANGED <<service, now, req, res, ordersVars, authVars,
                 client, collection, connecting, feedbacks, oidSeq>>

FirebaseLost ==
  /\ Idle /\ service = "auth" /\ firebaseUp
  /\ firebaseUp' = FALSE
  /\ UNCHANGED <<service, now, req, res, ordersVars, feedbackVars, adminApps, users>>

FirebaseBack ==
  /\ Idle /\ service = "auth" /\ ~firebaseUp
  /\ firebaseUp' = TRUE
  /\ UNCHANGED <<service, now, req, res, ordersVars, feedbackVars, adminApps, users>>

Tick ==
  /\ Idle /\ now < MaxClock
  /\ service # "frontend"
  /\ now' = now + 1
  /\ UNCHANGED <<service, req, res, ordersVars, feedbackVars, authVars>>

\* ------------------------------------------------------------- requests
U1 == Str(<<"u", "1">>)
U2 == Str(<<"u", "2">>)
ItemsA == Arr(1)
ItemsB == Arr(2)
TotalA == Num(378)
TotalB == Num(358)

OrderBodies ==
  { [user_id |-> U1, items |-> ItemsA, total |-> TotalA],
    [user_id |-> U2, items |-> ItemsB, total |-> TotalB],
    [user_id |-> Undefined, items |-> ItemsA, total |-> TotalA],
    [user_id |-> U1, items |-> Undefined, total |-> TotalA],
    [user_id |-> U1, items |-> ItemsA, total |-> Undefined],
    [user_id |-> U1, items |-> ItemsA, total |-> Num(0)],
    [user_id |-> U1, items |-> ItemsA, total |-> Str(<<"a">>)] }

OrderIds == 1..MaxOrders

\* bodies of PUT /orders/:id
UpdateBodies ==
  { [status |-> Str(<<"ready">>), items |-> Undefined, total |-> Undefined],
    [status |-> Str(<<"cancelled">>), items |-> Undefined, total |-> Undefined],
    [status |-> Str(<<"cancelled">>), items |-> ItemsB, total |-> TotalB],
    [status |-> Undefined, items |-> ItemsB, total |-> TotalB],
    [status |-> Undefined, items |-> Undefined, total |-> Num(0)],
    [status |-> Str(<<"ready">>), items |-> Undefined, total |-> Num(0)],
    [status |-> Undefined, items |-> Undefined, total |-> Undefined] }

\* query strings of GET /orders
OrderQueries ==
  { [user_id |-> Undefined, status |-> Undefined],
    [user_id |-> U1, status |-> Undefined],
    [user_id |-> Undefined, status |-> Str(<<"pending">>)],
    [user_id |-> U2, status |-> Str(<<"ready">>)] }

\* bodies of POST /feedback
Ratings ==
  { Num(50), Num(60), Num(0), Num(-10), Num(37), Num(5), Undefined,
    Str(<<"3">>), Str(<<"6">>), Str(<<"a", "b">>), Str(<<"9", "a">>) }

FeedbackBodies ==
  { [user_id |-> U1, rating |-> x, comment |-> Undefined, order_id |-> Undefined] :
      x \in Ratings }
  \cup
  { [user_id |-> u, rating |-> x, comment |-> Str(<<"o", "k">>), order_id |-> Str(<<"7">>)] :
      u \in {U2, Undefined}, x \in {Num(40), Num(60)} }

\* the <segment> of GET and DELETE /feedback/<segment>
FeedbackSegments ==
  { toHexString(ObjectId(k)) : k \in 1..(MaxFeedbacks + 1) } \cup {Str(<<"stats">>)}

\* query strings of GET /feedback
FeedbackQueries ==
  { [user_id |-> Undefined, rating |-> Undefined],
    [user_id |-> U1, rating |-> Undefined],
    [user_id |-> Undefined, rating |-> Str(<<"5">>)] }

\* bodies of POST /login
LoginBodies == { [idToken |-> t] : t \in {Undefined, T1, T2, Str(<<"forged">>)} }

\* bodies of POST /register
EmailA == Str(<<"a", "@", "x">>)
EmailB == Str(<<"b", "@", "x">>)
Secret == Str(<<"s", "e", "c", "r", "e", "t">>)
RegisterBodies ==
  { [email |-> EmailA, password |-> Secret, displayName |-> Str(<<"Ana">>)],
    [email |-> EmailB, password |-> Secret, displayName |-> Undefined],
    [email |-> Undefined, password |-> Secret, displayName |-> Undefined],
    [email |-> EmailA, password |-> Undefined, displayName |-> Undefined],
    [email |-> EmailA, password |-> Str(<<"p", "w">>), displayName |-> Undefined],
    [email |-> Str(<<"a", "x">>), password |-> Secret, displayName |-> Undefined] }

\* Authorization headers of GET /profile
AuthorizationHeaders ==
  { Undefined,
    Str(<<"Bearer ", "t1">>), Str(<<"Bearer ", "t2">>), Str(<<"Bearer ", "forged">>),
    Str(<<"Basic ", "t1">>), Str(<<"Bearer ">>) }

\* methods and paths of requests tried against the route tables
Methods == {"GET", "PATCH", "OPTIONS"}
Paths == {"/orders", "/nothing"}

\* auth/server.js: admin.initializeApp succeeded (1) or threw (0) at startup
InitializedApps == {0, 1}

\* ------------------------------------------------- the same request twice
\* README "Principio de Independencia": a process shares nothing with the
\* stores of the other two.  To observe it, one request is answered twice
\* from the same state of its own process, the second time with one store of
\* another process in the opposite condition.
TwinOff == [phase |-> "off"]
TwinFirst == [phase |-> "first"]

\* everything a handler can read or write
Snapshot ==
  [now |-> now, mysqlUp |-> mysqlUp, pool |-> pool, orders |-> orders,
   autoInc |-> autoInc, mongoUp |-> mongoUp, client |-> client,
   collection |-> collection, connecting |-> connecting,
   feedbacks |-> feedbacks, oidSeq |-> oidSeq, firebaseUp |-> firebaseUp,
   adminApps |-> adminApps, users |-> users, authToken |-> authToken]

\* the stores a process does not own
ForeignStores(svc) ==
  CASE svc = "orders" -> {"mongoUp", "firebaseUp"}
    [] svc = "feedback" -> {"mysqlUp", "firebaseUp"}
    [] svc = "auth" -> {"mysqlUp", "mongoUp"}
    [] OTHER -> {}

\* the rows of a list response
Listed(route, r) ==
  CASE route = "GET /orders" /\ r.code = 200 -> r.body.orders
    [] route = "GET /feedback" /\ r.code = 200 -> r.body.feedbacks
    [] OTHER -> <<>>

\* ORDER BY created_at DESC leaves the order of rows of one second to the
\* store: asked the same query over the same rows, the store returns them
\* in the same order
SameTieOrder(route, a, b) ==
  LET la == Listed(route, a)
      lb == Listed(route, b)
  IN  {la[i] : i \in DOMAIN la} = {lb[i] : i \in DOMAIN lb} => la = lb

\* a handler step: the first run records where it started and the inputs the
\* request does not carry (inp); the second run is held to the same request,
\* the same inputs and the same tie order
Twin(inp) ==
  CASE twin.phase = "off" -> UNCHANGED twin
    [] twin.phase = "first" ->
         twin' = [phase |-> "ran", inp |-> inp, pre |-> Snapshot]
    [] twin.phase = "replay" ->
         /\ req' = twin.req
         /\ inp = twin.inp
         /\ SameTieOrder(req'.route, res', twin.res)
         /\ twin' = [twin EXCEPT !.phase = "compare"]
    [] OTHER -> FALSE

\* a step of the environment: none happens between the two runs
Quiet == twin.phase \in {"off", "first"} /\ UNCHANGED twin

\* the response leaves without a second run
TwinDeliver ==
  /\ twin.phase \in {"off", "ran"}
  /\ twin' = IF twin.phase = "off" THEN twin ELSE TwinFirst

AsNumber(b) == IF b THEN 1 ELSE 0

\* back to the state the first run started from, one foreign store flipped
Rewind(store) ==
  /\ ~Idle /\ twin.phase = "ran"
  /\ store \in ForeignStores(service)
  /\ req' = NoReq /\ res' = NoRes
  /\ twin' = [phase |-> "replay", inp |-> twin.inp, pre |-> twin.pre,
               req |-> req, res |-> res, post |-> Snapshot, store |-> store]
  /\ LET to == [twin.pre EXCEPT ![store] = ~@]
     IN  /\ now' = to.now
         /\ mysqlUp' = to.mysqlUp /\ pool' = to.pool
         /\ orders' = to.orders /\ autoInc' = to.autoInc
         /\ mongoUp' = to.mongoUp /\ client' = to.client
         /\ collection' = to.collection /\ connecting' = to.connecting
         /\ feedbacks' = to.feedbacks /\ oidSeq' = to.oidSeq
         /\ firebaseUp' = to.firebaseUp /\ adminApps' = to.adminApps
         /\ users' = to.users
         /\ authToken' = to.authToken
  /\ UNCHANGED <<service, pending, frontendVars>>

\* back to the state the first run started from, the request now carrying
\* another Authorization header
RewindCaller(token) ==
  /\ ~Idle /\ twin.phase = "ran"
  /\ service \in {"orders", "feedback"}
  /\ token # twin.pre.authToken
  /\ req' = NoReq /\ res' = NoRes
  /\ twin' = [phase |-> "replay", inp |-> twin.inp, pre |-> twin.pre,
               req |-> req, res |-> res, post |-> Snapshot, store |-> "authToken"]
  /\ LET to == [twin.pre EXCEPT !.authToken = token]
     IN  /\ now' = to.now
         /\ mysqlUp' = to.mysqlUp /\ pool' = to.pool
         /\ orders' = to.orders /\ autoInc' = to.autoInc
         /\ mongoUp' = to.mongoUp /\ client' = to.client
         /\ collection' = to.collection /\ connecting' = to.connecting
         /\ feedbacks' = to.feedbacks /\ oidSeq' = to.oidSeq
         /\ firebaseUp' = to.firebaseUp /\ adminApps' = to.adminApps
         /\ users' = to.users
         /\ authToken' = to.authToken
  /\ UNCHANGED <<service, pending, frontendVars>>

\* the second run is discarded: the foreign store and the header are as they
\* were, the first run's effects stand
Resume ==
  /\ ~Idle /\ twin.phase = "compare"
  /\ req' = NoReq /\ res' = NoRes
  /\ twin' = TwinFirst
  /\ LET to == twin.post
     IN  /\ now' = to.now
         /\ mysqlUp' = to.mysqlUp /\ pool' = to.pool
         /\ orders' = to.orders /\ autoInc' = to.autoInc
         /\ mongoUp' = to.mongoUp /\ client' = to.client
         /\ collection' = to.collection /\ connecting' = to.connecting
         /\ feedbacks' = to.feedbacks /\ oidSeq' = to.oidSeq
         /\ firebaseUp' = to.firebaseUp /\ adminApps' = to.adminApps
         /\ users' = to.users
         /\ authToken' = to.authToken
  /\ UNCHANGED <<service, pending, frontendVars>>

\* ------------------------------------------------------------ behaviours
Started ==
  /\ service \in {"orders", "feedback", "auth", "frontend"}
  /\ now = 0
  /\ req = NoReq /\ res = NoRes
  /\ mysqlUp \in IF service = "orders" THEN BOOLEAN ELSE {TRUE}
  /\ pool = createPool
  /\ orders = {}
  /\ autoInc = 1
  /\ mongoUp \in IF service = "feedback" THEN BOOLEAN ELSE {TRUE}
  /\ client = connect
  /\ collection = "null"
  /\ connecting = TRUE
  /\ feedbacks = {}
  /\ oidSeq = 0
  /\ firebaseUp \in IF service = "auth" THEN BOOLEAN ELSE {TRUE}
  /\ adminApps \in IF service = "auth" THEN InitializedApps ELSE {1}
  /\ users = {}
  /\ pending = NoPut
  /\ authToken = Undefined
  /\ loading = TRUE
  /\ currentUser = Null
  /\ location \in IF service = "frontend" THEN Locations ELSE {"/"}
  /\ cartItems = <<>>
  /\ showCart = FALSE
  /\ isSubmitting = FALSE
  /\ checkout = NoCheckout

Init == Started /\ twin = TwinOff

Next ==
  \/ OrdersHealth /\ Twin(0) /\ Backend
  \/ \E b \in OrderBodies, f \in FailPoints : PostOrder(b, f) /\ Twin(f) /\ Backend
  \/ \E q \in OrderQueries, f \in FailPoints : ListOrders(q, f) /\ Twin(f) /\ Backend
  \/ \E i \in OrderIds, f \in FailPoints : GetOrder(i, f) /\ Twin(f) /\ Backend
  \/ \E i \in OrderIds, b \in UpdateBodies, f \in FailPoints :
        PutOrder(i, b, f) /\ Twin(f) /\ Backend
  \/ \E i \in OrderIds, f \in FailPoints : DeleteOrder(i, f) /\ Twin(f) /\ Backend
  \/ ConnectSettled /\ Quiet /\ Backend
  \/ FeedbackHealth /\ Twin(0) /\ Backend
  \/ \E b \in FeedbackBodies, f \in FailPoints : PostFeedback(b, f) /\ Twin(f) /\ Backend
  \/ \E q \in FeedbackQueries, f \in FailPoints : ListFeedback(q, f) /\ Twin(f) /\ Backend
  \/ \E i \in FeedbackSegments, f \in FailPoints :
        GetFeedbackSegment(i, f) /\ Twin(f) /\ Backend
  \/ \E i \in FeedbackSegments, f \in FailPoints : DeleteFeedback(i, f) /\ Twin(f) /\ Backend
  \/ AuthHealth /\ Twin(0) /\ Backend
  \/ \E b \in LoginBodies, k \in BOOLEAN : Login(b, k) /\ Twin(AsNumber(k)) /\ Backend
  \/ \E b \in RegisterBodies : Register(b) /\ Twin(0) /\ Backend
  \/ \E h \in AuthorizationHeaders, k \in BOOLEAN :
        Profile(h, k) /\ Twin(AsNumber(k)) /\ Backend
  \/ \E m \in Methods, p \in Paths : Unrouted(m, p) /\ Twin(0) /\ Backend
  \/ Deliver /\ TwinDeliver /\ Backend
  \/ MySqlLost /\ Quiet /\ Backend
  \/ MySqlBack /\ Quiet /\ Backend
  \/ MongoLost /\ Quiet /\ Backend
  \/ MongoBack /\ Quiet /\ Backend
  \/ FirebaseLost /\ Quiet /\ Backend
  \/ FirebaseBack /\ Quiet /\ Backend
  \/ Tick /\ Quiet /\ Backend
  \/ \E user \in {Null, UserA} : AuthStateChanged(user) /\ Quiet
  \/ \E path \in Locations : GoTo(path) /\ Quiet
  \/ \E id \in Menu : AddToCart(id) /\ Quiet
  \/ \E id \in Menu, q \in -1..MaxQuantity : UpdateQuantity(id, q) /\ Quiet
  \/ \E id \in Menu : RemoveFromCart(id) /\ Quiet
  \/ ToggleCart /\ Quiet
  \/ CheckoutStart /\ Quiet
  \/ \E outcome \in Outcomes : CheckoutDone(outcome) /\ Quiet

Spec == Init /\ [][Next]_vars

\* every request may be answered a second time with a foreign store flipped
InitIsolation == Started /\ twin = TwinFirst

NextIsolation ==
  \/ Next
  \/ \E store \in {"mysqlUp", "mongoUp", "firebaseUp"} : Rewind(store)
  \/ Resume

SpecIsolation == InitIsolation /\ [][NextIsolation]_vars

\* bodies of the PUT requests that are followed across their await
InterleavedBodies ==
  { [status |-> Str(<<"ready">>), items |-> Undefined, total |-> Undefined],
    [status |-> Undefined, items |-> ItemsB, total |-> TotalB] }

\* the orders process runs other handlers while a PUT handler waits
NextInterleaved ==
  \/ Next
  \/ \E i \in OrderIds, b \in InterleavedBodies :
        PutBegin(i, b) /\ UNCHANGED <<twin, authToken, frontendVars>>
  \/ \E f \in FailPoints :
        PutFinish(f) /\ UNCHANGED <<twin, authToken, frontendVars>>

SpecInterleaved == Init /\ [][NextInterleaved]_vars

\* the tokens callers put in the Authorization header: none (Init), one
\* that no provider issued, one the provider issued
CallerTokens == {Str(<<"forged">>), T1}

NextCaller ==
  \/ Next
  \/ \E token \in CallerTokens : RewindCaller(token)
  \/ Resume

\* every orders or feedback request may be answered a second time with
\* another Authorization header
SpecCaller == InitIsolation /\ [][NextCaller]_vars

\* the orders process is started while MySQL is unreachable
InitRecovery == Init /\ (service = "orders" => ~mysqlUp)

SpecRecovery == InitRecovery /\ [][Next]_vars

\* ================================================================ claims
\* a handler of the followed process answered `route` in this step
Answered(route) == Idle /\ res' # NoRes /\ req'.route = route

\* the ids of the rows of a table
Ids(tbl) == { r.id : r \in tbl }

\* ------------------------------------------------------------------- C1
\* a body with a user id, a list of items and a positive total
ValidOrderBody(b) ==
  /\ b.user_id.t = "string" /\ b.user_id.s # <<>>
  /\ b.items.t = "array"
  /\ b.total.t = "number" /\ b.total.n > 0

\* C1: every POST /orders with a valid user_id, items and total, handled
\* while the store is reachable (at the probe and until the answer), answers
\* 201 with success = true and an order of status "pending"; the store then
\* holds exactly one more order, under an id no other order has, with that
\* user_id, items and total, and every order it held before is unchanged.
C1_PostOrderCreates ==
  [][ (Answered("POST /orders") /\ ValidOrderBody(req'.body) /\ mysqlUp /\ mysqlUp')
      => /\ res'.code = 201
         /\ res'.body.success = TRUE
         /\ res'.body.order.status = "pending"
         /\ \E row \in orders' \ orders :
              /\ orders' = orders \cup {row}
              /\ row.id \notin Ids(orders)
              /\ row.user_id = req'.body.user_id
              /\ row.items = req'.body.items
              /\ row.total = req'.body.total
              /\ row.status = "pending"
              /\ res'.body.order = row ]_vars

\* a second order was created next to one the store already held
C1_Witness ==
  /\ req.route = "POST /orders" /\ res.code = 201
  /\ ValidOrderBody(req.body)
  /\ Cardinality(orders) = 2
  /\ res.body.order \in orders

\* ------------------------------------------------------------------- C2
\* C2: GET /orders/:id never changes the store; handled while the store is
\* reachable it answers 404 for every id no stored order has and 200 with
\* exactly the stored order of that id for every id in the store (503 when
\* the probe failed, 500 when the store was lost during the query).
C2_GetOrderById ==
  [][ Answered("GET /orders/:id")
      => /\ orders' = orders
         /\ ~mysqlUp => res'.code = 503
         /\ (mysqlUp /\ ~mysqlUp') => res'.code = 500
         /\ (mysqlUp /\ mysqlUp') =>
              IF req'.id \in Ids(orders)
              THEN /\ res'.code = 200
                   /\ res'.body.order \in orders
                   /\ res'.body.order.id = req'.id
              ELSE res'.code = 404 ]_vars

\* one of two stored orders was fetched by its id
C2_Witness ==
  /\ req.route = "GET /orders/:id" /\ res.code = 200
  /\ Cardinality(orders) = 2
  /\ res.body.order \in orders /\ res.body.order.id = req.id

\* ------------------------------------------------------------------- C3
\* a rating that is a number, or the text of a number, below 1 or above 5
OutsideOneToFive(v) ==
  /\ v.t \in {"number", "string"}
  /\ ToNumber(v).t = "number"
  /\ (ToNumber(v).n < 10 \/ ToNumber(v).n > 50)

\* C3: a POST /feedback whose rating is outside 1..5 (6, 0, -1, 0.5, "6")
\* never inserts anything and issues no operation to the store, whatever
\* the other fields of the body are; it is rejected with 400 whenever it
\* gets past the probe (503 otherwise).
C3_RatingOutsideRejected ==
  [][ (Answered("POST /feedback") /\ OutsideOneToFive(req'.body.rating))
      => /\ feedbacks' = feedbacks
         /\ oidSeq' = oidSeq
         /\ res'.calls = 0
         /\ res'.code = IF mongoUp THEN 400 ELSE 503 ]_vars

\* a rating of -1 was rejected although the collection was ready and the
\* body was otherwise complete
C3_Witness ==
  /\ req.route = "POST /feedback" /\ res.code = 400
  /\ req.body.rating = Num(-10)
  /\ Truthy(req.body.user_id)
  /\ collection # "null"

\* ------------------------------------------------------------------- C4
\* C4: every feedback in the store has a rating that is an integer from 1
\* to 5, whatever JSON value the request carried as rating.
C4_StoredRatingOneToFive ==
  \A d \in feedbacks : d.rating \in { Num(10 * k) : k \in 1..5 }

C6_AuthHealthReportsProvider ==
  [][ (Answered("GET /health") /\ service = "auth")
      => (res'.body.firebase = "Connected" <=> firebaseUp) ]_vars

\* ------------------------------------------------------------------- C7
OrdersDataRoutes ==
  { "POST /orders", "GET /orders", "GET /orders/:id", "PUT /orders/:id",
    "DELETE /orders/:id" }

\* GET /feedback/stats arrives as GET /feedback/:id with the segment "stats"
FeedbackDataRoutes ==
  { "POST /feedback", "GET /feedback", "GET /feedback/:id", "DELETE /feedback/:id" }

\* C7: on every data route of the orders and feedback services, a request
\* that arrives while the store does not answer the probe is answered 503,
\* the handler issues no query or write, and the store is unchanged.
C7_ProbeFailureShortCircuits ==
  [][ (\/ service = "orders" /\ ~mysqlUp /\ \E rt \in OrdersDataRoutes : Answered(rt)
       \/ service = "feedback" /\ ~mongoUp /\ \E rt \in FeedbackDataRoutes : Answered(rt))
      => /\ res'.code = 503
         /\ res'.calls = 0
         /\ orders' = orders /\ autoInc' = autoInc
         /\ feedbacks' = feedbacks /\ oidSeq' = oidSeq ]_vars

\* GET /feedback/stats was answered 503 while feedback was stored
C7_Witness ==
  /\ req.route = "GET /feedback/:id" /\ req.id = Str(<<"stats">>)
  /\ res.code = 503
  /\ feedbacks # {}

\* ------------------------------------------------------------------- C8
\* a field the body carries
Supplied(v) == v # Undefined

\* a value the column of the field can hold
FitsStatus(v) == Supplied(v) => \E e \in OrderStatus : v = Str(<<e>>)
FitsTotal(v) == Supplied(v) => v.t = "number" /\ v.n >= 0

\* C8: a PUT /orders/:id whose body carries at least one of status, items,
\* total (each a value its column can hold), handled while the store is
\* reachable, answers 404 and changes nothing when no order has the id;
\* otherwise exactly the supplied fields of that order take the supplied
\* values, id, user_id, created_at and the unsupplied fields stay, and no
\* other order changes.
C8_PutReplacesSupplied ==
  [][ LET b == req'.body
      IN (/\ Answered("PUT /orders/:id") /\ mysqlUp /\ mysqlUp'
          /\ (Supplied(b.status) \/ Supplied(b.items) \/ Supplied(b.total))
          /\ FitsStatus(b.status) /\ FitsTotal(b.total))
         => IF req'.id \notin Ids(orders)
            THEN res'.code = 404 /\ orders' = orders
            ELSE LET old == CHOOSE o \in orders : o.id = req'.id
                 IN  /\ res'.code = 200
                     /\ \E new \in orders' :
                          /\ orders' = (orders \ {old}) \cup {new}
                          /\ new.id = old.id
                          /\ new.user_id = old.user_id
                          /\ new.created_at = old.created_at
                          /\ new.status = IF Supplied(b.status) THEN b.status.s[1]
                                          ELSE old.status
                          /\ new.items = IF Supplied(b.items) THEN b.items ELSE old.items
                          /\ new.total = IF Supplied(b.total) THEN b.total ELSE old.total
                          /\ res'.body.order = new ]_vars

\* ------------------------------------------------------------------- C9
\* C9: DELETE /orders/:id handled while the store is reachable removes
\* exactly the order of that id and answers 200, or answers 404 and changes
\* nothing when no order has the id (503 and no change when the probe
\* failed, 500 when the store was lost). An id that was handed out and is
\* no longer in the store never comes back, whatever requests follow, and
\* a GET or DELETE of an id not in the store answers 404.
C9_DeleteRemovesForGood ==
  [][ /\ Answered("DELETE /orders/:id") =>
           /\ ~mysqlUp => res'.code = 503 /\ orders' = orders
           /\ (mysqlUp /\ ~mysqlUp') => res'.code = 500
           /\ (mysqlUp /\ mysqlUp') =>
                IF req'.id \in Ids(orders)
                THEN /\ res'.code = 200
                     /\ orders' = { o \in orders : o.id # req'.id }
                     /\ Cardinality(orders') = Cardinality(orders) - 1
                ELSE res'.code = 404 /\ orders' = orders
      /\ (Answered("GET /orders/:id") /\ mysqlUp /\ mysqlUp' /\ req'.id \notin Ids(orders))
           => res'.code = 404
      /\ Ids(orders) \subseteq 1..(autoInc - 1)
      /\ \A id \in 1..(autoInc - 1) : id \notin Ids(orders) => id \notin Ids(orders') ]_vars

\* a second DELETE of a removed order was answered 404 while a later order
\* was in the store
C9_Witness ==
  /\ req.route = "DELETE /orders/:id" /\ res.code = 404
  /\ req.id < autoInc /\ req.id \notin Ids(orders)
  /\ \E o \in orders : o.id > req.id

\* ------------------------------------------------------------------ C10
\* C10: GET /feedback/:id with the _id a POST /feedback returned, for a
\* feedback that has not been deleted, answers 200 with that feedback.
C10_CreatedFeedbackReadable ==
  [][ (/\ Answered("GET /feedback/:id") /\ mongoUp /\ mongoUp'
       /\ \E d \in feedbacks : toHexString(d._id) = req'.id)
      => /\ res'.code = 200
         /\ res'.body.feedback \in feedbacks
         /\ toHexString(res'.body.feedback._id) = req'.id ]_vars

\* ------------------------------------------------------------------ C11
\* C11: DELETE /feedback/:id with the _id a POST /feedback returned, handled
\* while the store is reachable, removes exactly that document and answers
\* 200; it answers 404 only when no stored feedback has that id.
C11_DeleteFeedbackRemoves ==
  [][ (Answered("DELETE /feedback/:id") /\ mongoUp /\ mongoUp')
      => IF \E d \in feedbacks : toHexString(d._id) = req'.id
         THEN /\ res'.code = 200
              /\ feedbacks' = { d \in feedbacks : toHexString(d._id) # req'.id }
         ELSE res'.code = 404 => feedbacks' = feedbacks ]_vars

\* ------------------------------------------------------------------ C12
\* the counts of a rating distribution, added up
RECURSIVE SumCounts(_)
SumCounts(dist) ==
  IF dist = {} THEN 0
  ELSE LET g == CHOOSE x \in dist : TRUE IN g.count + SumCounts(dist \ {g})

\* C12: GET /feedback/stats, handled while the store is reachable and the
\* collection is ready, answers 200 with success = true and stats, where
\* stats.total is the number of stored feedbacks, the counts of
\* stats.ratingDistribution add up to stats.total, and stats.averageRating
\* is 0 when nothing is stored.
C12_StatsAnswered ==
  [][ (/\ Idle /\ res' # NoRes /\ service = "feedback"
       /\ \/ req'.route = "GET /feedback/stats"
          \/ req'.route = "GET /feedback/:id" /\ req'.id = Str(<<"stats">>)
       /\ mongoUp /\ mongoUp' /\ collection # "null")
      => /\ res'.code = 200
         /\ res'.body.success = TRUE
         /\ res'.body.stats.total = Cardinality(feedbacks)
         /\ SumCounts(res'.body.stats.ratingDistribution) = res'.body.stats.total
         /\ feedbacks = {} => res'.body.stats.averageRating = 0 ]_vars

C14_BadRequestIffFieldMissing ==
  [][ (Answered("POST /orders") /\ mysqlUp)
      => LET b == req'.body
             missing == ~Supplied(b.user_id) \/ ~Supplied(b.items) \/ ~Supplied(b.total)
         IN  /\ res'.code = 400 <=> missing
             /\ res'.code = 400 => orders' = orders /\ autoInc' = autoInc
             /\ ~missing => res'.body # [error |-> "Dados incompletos"] ]_vars

\* ------------------------------------------------------------------ C15
\* a filter the query string gives
Given(v) == v.t = "string" /\ v.s # <<>>

\* the stored orders that match every filter the query gives
Matching(q, tbl) ==
  { o \in tbl : /\ Given(q.user_id) => o.user_id = q.user_id
                /\ Given(q.status) => <<o.status>> = q.status.s }

\* C15: GET /orders handled while the store is reachable answers 200 with
\* exactly the stored orders that match every filter given (user_id,
\* status, both, or none), each once, ordered by created_at descending,
\* with count equal to the number of orders returned; it never modifies
\* the store.
C15_ListOrdersFiltered ==
  [][ Answered("GET /orders")
      => /\ orders' = orders /\ autoInc' = autoInc
         /\ (mysqlUp /\ mysqlUp') =>
              LET rows == res'.body.orders
              IN  /\ res'.code = 200 /\ res'.body.success = TRUE
                  /\ { rows[i] : i \in 1..Len(rows) } = Matching(req'.query, orders)
                  /\ Len(rows) = Cardinality(Matching(req'.query, orders))
                  /\ \A i, j \in 1..Len(rows) :
                       i < j => rows[i].created_at >= rows[j].created_at
                  /\ res'.body.count = Len(rows) ]_vars

\* a query with both filters returned the one matching order of two
C15_Witness ==
  /\ req.route = "GET /orders" /\ res.code = 200
  /\ Given(req.query.user_id) /\ Given(req.query.status)
  /\ res.body.count = 1
  /\ Cardinality(orders) = 2
  /\ \E o \in orders : o.user_id = req.query.user_id /\ o \notin Matching(req.query, orders)

\* ------------------------------------------------------------------ C17
\* the bearer tokens an Authorization header carries
Carried(h) ==
  IF h.t # "string" THEN {}
  ELSE { Str(<<h.s[i + 1]>>) : i \in { k \in 1..(Len(h.s) - 1) : h.s[k] = "Bearer " } }

\* C17: an auth service whose Firebase Admin initialisation failed at
\* startup keeps answering: GET /health gives 200 with firebase
\* "Disconnected"; POST /login with an idToken, POST /register with email
\* and password and GET /profile with a bearer token give 503 (and create
\* no account); and admin.apps never changes while the process runs.
C17_UninitialisedAuthAnswers ==
  [][ /\ adminApps' = adminApps
      /\ (service = "auth" /\ adminApps = 0 /\ Idle /\ res' # NoRes) =>
           /\ req'.route = "GET /health" =>
                res'.code = 200 /\ res'.body.firebase = "Disconnected"
           /\ (req'.route = "POST /login" /\ Truthy(req'.body.idToken)) =>
                res'.code = 503
           /\ (/\ req'.route = "POST /register"
               /\ Truthy(req'.body.email) /\ Truthy(req'.body.password)) =>
                res'.code = 503 /\ users' = users
           /\ (req'.route = "GET /profile" /\ Carried(req'.authorization) # {}) =>
                res'.code = 503 ]_vars

\* an uninitialised auth service answered GET /profile with a signed
\* token 503 while the provider was reachable
C17_Witness ==
  /\ service = "auth" /\ adminApps = 0 /\ firebaseUp
  /\ req.route = "GET /profile" /\ T1 \in Carried(req.authorization)
  /\ res.code = 503

\* ------------------------------------------------------------------ C19
\* C19: GET /profile answers 200 only to a request whose Authorization
\* header carries a bearer token the provider signed, and then returns the
\* uid, email and name of that token; a request with no bearer token, or
\* (the Admin SDK being initialised) with a token that fails verification,
\* is answered 401; whenever the answer is not 200 the profile handler did
\* not run (the body has no user).
C19_ProfileOnlyForVerifiedToken ==
  [][ Answered("GET /profile")
      => LET h == req'.authorization
         IN  /\ res'.code = 200 =>
                  /\ adminApps > 0
                  /\ \E t \in Carried(h) \cap IssuedTokens :
                       /\ res'.body.user.uid = Claims(t).uid
                       /\ res'.body.user.email = Claims(t).email
                       /\ res'.body.user.name = OrElse(Claims(t).name, Str(<<"Usuario">>))
             /\ Carried(h) = {} => res'.code = 401
             /\ (adminApps > 0 /\ Carried(h) \cap IssuedTokens = {}) => res'.code = 401
             /\ res'.code \in {200, 401, 503}
             /\ res'.code # 200 => DOMAIN res'.body = {"error"} ]_vars

\* a forged bearer token was answered 401 by an initialised service whose
\* provider was reachable
C19_Witness ==
  /\ req.route = "GET /profile" /\ res.code = 401
  /\ Carried(req.authorization) = {Str(<<"forged">>)}
  /\ adminApps > 0 /\ firebaseUp

C18_LostAfterProbeIs500 ==
  [][ (Idle /\ res' # NoRes /\ req'.route # "*" /\ service \in {"orders", "feedback"})
      => LET up == IF service = "orders" THEN mysqlUp ELSE mongoUp
             upAfter == IF service = "orders" THEN mysqlUp' ELSE mongoUp'
         IN  /\ res'.code = 503 => ~up /\ res'.calls = 0
             /\ (up /\ ~upAfter) =>
                  /\ res'.code = 500
                  /\ res'.calls >= 1
                  /\ DOMAIN res'.body = {"error"} ]_vars

\* POST /orders lost the store between its INSERT and its read-back and
\* answered 500
C18_Witness ==
  /\ req.route = "POST /orders" /\ res.code = 500 /\ res.calls = 2
  /\ ~mysqlUp
  /\ \E o \in orders : o.user_id = req.body.user_id

\* ------------------------------------------------------------------ C16
\* C16: failure isolation.  A request answered a second time from the same
\* state of its own process, with the same inputs, while a store of another
\* process is in the opposite condition (MySQL for an auth or feedback
\* request; MongoDB or Firebase for an orders request) gets the same
\* response, and leaves its own process in the same state.
C16_FailureIsolation ==
  twin.phase = "compare"
    => /\ res = twin.res
       /\ [Snapshot EXCEPT ![twin.store] = ~@] = twin.post

\* the same POST /orders created the same order with MongoDB reachable and
\* with MongoDB lost
C16_Witness ==
  /\ twin.phase = "compare"
  /\ service = "orders" /\ twin.store = "mongoUp"
  /\ twin.pre.mongoUp /\ ~mongoUp
  /\ req.route = "POST /orders"
  /\ res.code = 201 /\ twin.res.code = 201
  /\ Cardinality(orders) = Cardinality(twin.pre.orders) + 1

\* ------------------------------------------------------------------ C21
\* C21: a successful PUT /orders/:id response (200, success) always carries
\* the updated order, and every field of that order the request supplied
\* has the value the request wrote, whatever other PUT and DELETE requests
\* on the same id run while the handler waits between its UPDATE and its
\* SELECT.
C21_PutAnswersOwnWrite ==
  [][ (Answered("PUT /orders/:id") /\ req' = pending /\ pending' = NoPut
         /\ res'.code = 200)
      => /\ "order" \in DOMAIN res'.body
         /\ LET b == req'.body
                o == res'.body.order
            IN  /\ Supplied(b.status) => o.status = b.status.s[1]
                /\ Supplied(b.items) => o.items = b.items
                /\ Supplied(b.total) => o.total = ToNumber(b.total) ]_vars

\* ------------------------------------------------------------------ C22
\* C22: POST /orders does its INSERT and then its read-back SELECT with no
\* retry and no compensation: when the store is lost after the INSERT took
\* effect, the answer is 500, the inserted order stays in the store, and the
\* request has issued exactly those two store calls.
C22_InsertStaysAfterFailedReadBack ==
  [][ (Answered("POST /orders") /\ mysqlUp /\ ~mysqlUp' /\ res'.calls >= 2)
      => /\ res'.code = 500
         /\ DOMAIN res'.body = {"error"}
         /\ res'.calls = 2
         /\ \E o \in orders' :
              /\ o.id = autoInc
              /\ o.user_id = req'.body.user_id
              /\ orders' = orders \cup {o}
         /\ autoInc' = autoInc + 1 ]_vars

\* the second order of a behaviour was inserted and its read-back failed
C22_Witness ==
  /\ req.route = "POST /orders" /\ res.code = 500 /\ res.calls = 2
  /\ ~mysqlUp
  /\ Cardinality(orders) = 2 /\ autoInc = 3

ProtectedPages == {"Orders", "Feedback"}

\* C24: the Orders and Feedback pages are rendered only while currentUser
\* is non-null; with no authenticated user a navigation to /orders or
\* /feedback ends at /login, and while the authentication state is loading
\* neither page is rendered.
C24_ProtectedPagesNeedUser ==
  LET page == Rendered(location, loading, currentUser)
  IN  /\ page \in ProtectedPages => currentUser # Null /\ ~loading
      /\ loading => page \notin ProtectedPages
      /\ (~loading /\ currentUser = Null) => location \notin {"/orders", "/feedback"}
      /\ \A path \in {"/orders", "/feedback"} :
           /\ Settled(path, FALSE, Null) = "/login"
           /\ \A user \in {Null, currentUser} :
                Rendered(path, TRUE, user) \notin ProtectedPages

\* the Orders page is on screen for a signed-in user
C24_Witness ==
  /\ service = "frontend" /\ ~loading /\ currentUser = UserA
  /\ location = "/orders"
  /\ Rendered(location, loading, currentUser) = "Orders"

\* ------------------------------------------------------------------ C25
\* the entry of a menu item in a cart, as a set (empty when there is none)
Entries(items, id) == { items[i] : i \in { k \in 1..Len(items) : items[k].id = id } }

\* every entry of an id other than `id` is where and what it was
OthersKept(before, after, id) ==
  SelectSeq(after, LAMBDA item : item.id # id)
    = SelectSeq(before, LAMBDA item : item.id # id)

\* C25: after any sequence of addToCart, updateQuantity and removeFromCart
\* calls the cart holds at most one entry per menu item id and every entry
\* has quantity >= 1; adding an item already in the cart increments its
\* quantity by 1 instead of adding an entry, updateQuantity with a
\* quantity <= 0 removes the entry, and each call leaves the entries of
\* other ids unchanged.
C25_CartEntries ==
  /\ \A i, j \in 1..Len(cartItems) : cartItems[i].id = cartItems[j].id => i = j
  /\ \A i \in 1..Len(cartItems) : cartItems[i].quantity >= 1
  /\ \A id \in Menu :
       LET added == addToCart(cartItems, id)
           removed == removeFromCart(cartItems, id)
       IN  /\ OthersKept(cartItems, added, id)
           /\ OthersKept(cartItems, removed, id)
           /\ Entries(removed, id) = {}
           /\ IF InCart(cartItems, id)
              THEN /\ Len(added) = Len(cartItems)
                   /\ \A i \in 1..Len(cartItems) :
                        cartItems[i].id = id =>
                          added[i] = [id |-> id, quantity |-> cartItems[i].quantity + 1]
              ELSE added = Append(cartItems, [id |-> id, quantity |-> 1])
           /\ \A q \in -1..MaxQuantity :
                LET updated == updateQuantity(cartItems, id, q)
                IN  /\ OthersKept(cartItems, updated, id)
                    /\ q <= 0 => Entries(updated, id) = {}
                    /\ (q >= 1 /\ InCart(cartItems, id)) =>
                         Entries(updated, id) = {[id |-> id, quantity |-> q]}

\* both menu items are in the cart, one of them added twice
C25_Witness ==
  /\ service = "frontend"
  /\ Len(cartItems) = 2
  /\ \E i \in 1..2 : cartItems[i].quantity = 2

\* ------------------------------------------------------------------ C26
\* C26: handleCheckout sends no createOrder request when no user is logged
\* in or the cart is empty, and it changes the cart only by emptying it
\* after a response with success = true: on a 503, another error response
\* or a network failure the cart is unchanged; isSubmitting is false again
\* when the checkout ends, on every path.
C26_CheckoutLeavesCartUnlessSuccess ==
  [][ /\ (checkout'.phase = "sent" /\ checkout.phase # "sent")
           => /\ currentUser # Null /\ cartItems # <<>>
              /\ checkout'.items = cartItems
              /\ checkout'.user_id = currentUser.uid
              /\ cartItems' = cartItems
      /\ (checkout.phase = "sent" /\ checkout'.phase = "ended")
           => /\ isSubmitting' = FALSE
              /\ IF checkout'.outcome = "success"
                 THEN cartItems' = <<>>
                 ELSE cartItems' = cartItems
      /\ (checkout'.phase # "sent") => isSubmitting' = FALSE ]_vars

\* a checkout of a non-empty cart was answered 503 and the cart is intact
C26_Witness ==
  /\ service = "frontend"
  /\ checkout = [phase |-> "ended", outcome |-> "503"]
  /\ ~isSubmitting /\ Len(cartItems) >= 1 /\ currentUser # Null

\* ------------------------------------------------------------------ C27
\* C27: a successful checkout removes from the cart only the items that
\* were sent in the order: an item added with addToCart while the
\* createOrder request was in flight is still in the cart after the
\* success response has been handled.
C27_SuccessKeepsLaterItems ==
  [][ (checkout.phase = "sent" /\ checkout'.phase = "ended"
         /\ checkout'.outcome = "success")
      => \A i \in 1..Len(cartItems) :
           ~InCart(checkout.items, cartItems[i].id)
             => InCart(cartItems', cartItems[i].id) ]_vars

C29_OrdersRecover ==
  [][ (service = "orders" /\ Idle /\ res' # NoRes /\ req'.route # "*"
         /\ mysqlUp /\ mysqlUp')
      => /\ res'.code # 503
         /\ req'.route = "GET /health" => res'.body.database = "Connected"
         /\ (req'.route \in OrdersDataRoutes /\ res'.code # 400) => res'.calls >= 1
         /\ OrdersCheckConnection ]_vars

\* the process that started without MySQL has created and returned an order
C29_Witness ==
  /\ service = "orders" /\ mysqlUp
  /\ req.route = "POST /orders" /\ res.code = 201
  /\ res.body.order \in orders

\* ------------------------------------------------------------------ C30
\* C30: the orders and feedback services never use the caller's identity.
\* A request answered a second time from the same state with another
\* Authorization header (none, a token nobody issued, a valid token) gets
\* the same response and has the same effect on the store, and the user_id
\* applied is the one given in the body or the query.
C30_CallerIdentityUnused ==
  (twin.phase = "compare" /\ twin.store = "authToken")
    => /\ res = twin.res
       /\ [Snapshot EXCEPT !.authToken = twin.post.authToken] = twin.post
       /\ (req.route \in {"POST /orders", "POST /feedback"} /\ res.code = 201)
            => \/ /\ req.route = "POST /orders"
                  /\ res.body.order.user_id = req.body.user_id
                  /\ res.body.order \in orders
               \/ /\ req.route = "POST /feedback"
                  /\ \E d \in feedbacks \ twin.pre.feedbacks :
                       d.user_id = req.body.user_id
       /\ (req.route = "GET /orders" /\ res.code = 200 /\ Given(req.query.user_id))
            => \A i \in 1..Len(res.body.orders) :
                 res.body.orders[i].user_id = req.query.user_id

\* POST /orders with user_id u1 in the body, sent once without a header and
\* once with the valid token of another user, created the same order for u1
C30_Witness ==
  /\ twin.phase = "compare" /\ twin.store = "authToken"
  /\ service = "orders"
  /\ twin.pre.authToken = Undefined /\ authToken = T1
  /\ req.route = "POST /orders" /\ res.code = 201
  /\ req.body.user_id = U1 /\ res.body.order.user_id = U1
====
